---------------------------- MODULE Spec2Model ----------------------------
(***************************************************************************)
(* Model of the equality-checker user interface repository:                *)
(*   checker/parsing.py  cleanup_string, _auto_symbol,                      *)
(*                       _EvaluateFalseTransformer, _replace_relations      *)
(*   checker/gui.py      MainWindow.compare                                 *)
(*                                                                         *)
(* Text is a sequence of Unicode code points, so that the whitelist of      *)
(* parsing.py keeps the ranges the source writes.                           *)
(***************************************************************************)
EXTENDS Integers, Sequences, FiniteSets, TLC

VARIABLES
    \* ---- cleanup_string -------------------------------------------------
    string,                \* argument: the raw text
    reject_unsafe_input,   \* argument: strict (TRUE) or lenient (FALSE)
    unmatchedGroupRaises,  \* the interpreter's re.sub, on a template group that took
                           \* no part in the match: TRUE = raises error "unmatched
                           \* group" (Python 2 and 3 up to 3.4), FALSE = expands it
                           \* to "" (Python 3.5 and later)
    cleanup_status,        \* "idle" | "pending" | "returned" | "UnsafeInputException" | "re.error"
    cleaned,               \* the returned text (<<>> while none)
    \* ---- parse_expr / _replace_relations --------------------------------
    expression_str,        \* argument of parse_expr: text cleaned by cleanup_string
    rel_status,            \* "idle" | "pending" | "rewritten"
    rel_text,              \* expression_str after line 270
    \* ---- _auto_symbol ---------------------------------------------------
    tokens,                \* argument: the token stream
    local_dict,            \* argument: the names of the local dictionary
    global_dict,           \* argument: name -> kind of the object it is bound to
    sym_pc,                \* "idle" | "loop" | "returned"
    tok_i,                 \* index of the token the for loop is at
    sym_result,            \* the list 'result'
    \* ---- _EvaluateFalseTransformer --------------------------------------
    ast0,                  \* the call nodes of the tree handed to visit
    ast,                   \* the call nodes as the visitor has changed them
    ef_stack,              \* visit_Call frames: <<node, next child to visit>>
    ef_status,             \* "idle" | "visiting" | "done" | "AttributeError"
    \* ---- MainWindow.compare ---------------------------------------------
    gui_state,             \* "Idle" | "Comparing" | "ResultShown"
    rb_logic,              \* the logic toggle of the window
    use_logic,             \* local of compare
    result,                \* local of compare: the checker's mapping
    msg,                   \* the QMessageBox of compare
    called,                \* the checker the running compare called
    presses,               \* activations of btn_check so far
    calls,                 \* checker calls so far
    dialogs                \* msg.exec() calls so far

cleanupVars == <<string, reject_unsafe_input, unmatchedGroupRaises, cleanup_status, cleaned>>
relVars     == <<expression_str, rel_status, rel_text>>
symVars     == <<tokens, local_dict, global_dict, sym_pc, tok_i, sym_result>>
efVars      == <<ast0, ast, ef_stack, ef_status>>
guiVars     == <<gui_state, rb_logic, use_logic, result, msg, called, presses, calls, dialogs>>
vars        == <<cleanupVars, relVars, symVars, efVars, guiVars>>

(***************************************************************************)
(* Bounds of the model.                                                     *)
(***************************************************************************)
MaxLen   == 4      \* longest raw text drawn from a character alphabet
MaxUni   == 3      \* longest raw text drawn from the Unicode/unsafe alphabet
MaxFrags == 3      \* most keyword fragments concatenated into a raw text
MaxRel   == 5      \* longest raw text handed (cleaned) to parse_expr
MaxTokens  == 3    \* longest token stream handed to _auto_symbol
MaxNodes   == 3    \* most call nodes in a syntax tree
MaxPresses == 3    \* most activations of the check button

(***************************************************************************)
(* Generic helpers on text.                                                 *)
(***************************************************************************)
BoundedSeq(S, n) == UNION {[1..k -> S] : k \in 0..n}

RECURSIVE Flatten(_)
Flatten(ss) == IF ss = <<>> THEN <<>> ELSE Head(ss) \o Flatten(Tail(ss))

\* TRUE iff pat occurs in s at position i
OccursAt(s, i, pat) ==
    /\ i >= 1
    /\ i + Len(pat) - 1 <= Len(s)
    /\ \A k \in 1..Len(pat) : s[i + k - 1] = pat[k]

Contains(s, pat) == \E i \in 1..Len(s) : OccursAt(s, i, pat)

\* str.replace(pat, rep): left to right, non-overlapping, one pass
RECURSIVE ReplaceFrom(_, _, _, _)
ReplaceFrom(s, i, pat, rep) ==
    IF i > Len(s) THEN <<>>
    ELSE IF OccursAt(s, i, pat) THEN rep \o ReplaceFrom(s, i + Len(pat), pat, rep)
    ELSE <<s[i]>> \o ReplaceFrom(s, i + 1, pat, rep)

StrReplace(s, pat, rep) == ReplaceFrom(s, 1, pat, rep)

(***************************************************************************)
(* Characters (code points) the source names.                               *)
(***************************************************************************)
SPACE == 32
LPAR  == 40
RPAR  == 41
STAR  == 42
COMMA == 44
DOT   == 46
SLASH == 47
LT    == 60
EQ    == 61
GT    == 62
QMARK == 63
QUOTE == 39
USCORE == 95
SUP2  == 178
SUP3  == 179
QUARTER == 188
HALF    == 189
THREEQ  == 190
TIMES   == 215
DIVIDE  == 247

Digits == 48..57

\* parsing.py 17-29
ALLOWED_CHARACTER_LIST ==
    {32} \cup (40..41) \cup (42..47) \cup (48..57) \cup (60..62) \cup (65..90)
         \cup (94..95) \cup (97..122) \cup {177} \cup (178..179) \cup (188..190)
         \cup {215} \cup {247}

\* "lambda", "lamda", "Lambda", "Lamda"
kw_lambda == <<108, 97, 109, 98, 100, 97>>
kw_lamda  == <<108, 97, 109, 100, 97>>
kw_Lambda == <<76, 97, 109, 98, 100, 97>>
kw_Lamda  == <<76, 97, 109, 100, 97>>

(***************************************************************************)
(* cleanup_string, step by step (parsing.py 46-75).                         *)
(***************************************************************************)

\* line 56: re.sub(UNSAFE_CHARACTERS_REGEX, '?', string); the regex ends in
\* '+', so a whole run of disallowed characters becomes one '?'
RECURSIVE SubUnsafeFrom(_, _, _)
SubUnsafeFrom(s, i, inRun) ==
    IF i > Len(s) THEN <<>>
    ELSE IF s[i] \in ALLOWED_CHARACTER_LIST
         THEN <<s[i]>> \o SubUnsafeFrom(s, i + 1, FALSE)
    ELSE IF inRun THEN SubUnsafeFrom(s, i + 1, TRUE)
    ELSE <<QMARK>> \o SubUnsafeFrom(s, i + 1, TRUE)

SubUnsafe(s) == SubUnsafeFrom(s, 1, FALSE)

\* line 67: the three alternatives of the decimal-point regex, tried in
\* order at position i.
NonDigitAt(s, i) == i <= Len(s) /\ s[i] \notin Digits
DotAt(s, i)      == i <= Len(s) /\ s[i] = DOT

\* ([^0-9])\.([^0-9])
Alt1(s, i) == NonDigitAt(s, i) /\ DotAt(s, i + 1) /\ NonDigitAt(s, i + 2)
\* (.?)\.([^0-9]) with (.?) taking one character
Alt2Greedy(s, i) == i <= Len(s) /\ DotAt(s, i + 1) /\ NonDigitAt(s, i + 2)
\* (.?)\.([^0-9]) with (.?) empty
Alt2Empty(s, i) == DotAt(s, i) /\ NonDigitAt(s, i + 1)
\* ([^0-9])\.(.?) , (.?) taking one character when there is one
Alt3(s, i) == NonDigitAt(s, i) /\ DotAt(s, i + 1)

DotMatchAt(s, i) == Alt1(s, i) \/ Alt2Greedy(s, i) \/ Alt2Empty(s, i) \/ Alt3(s, i)

DotMatchLen(s, i) ==
    IF Alt1(s, i) THEN 3
    ELSE IF Alt2Greedy(s, i) THEN 3
    ELSE IF Alt2Empty(s, i) THEN 2
    ELSE IF i + 2 <= Len(s) THEN 3 ELSE 2

\* the template '\g<1> \g<2>': groups 1 and 2 take part in alternative 1 only
DotReplacement(s, i) ==
    IF Alt1(s, i) THEN <<s[i], SPACE, s[i + 2]>> ELSE <<SPACE>>

\* a match of alternative 2 or 3 leaves groups 1 and 2 unmatched
RECURSIVE DotUnmatchedFrom(_, _)
DotUnmatchedFrom(s, i) ==
    IF i > Len(s) THEN FALSE
    ELSE IF DotMatchAt(s, i)
         THEN (~Alt1(s, i)) \/ DotUnmatchedFrom(s, i + DotMatchLen(s, i))
    ELSE DotUnmatchedFrom(s, i + 1)

RECURSIVE PruneDotsFrom(_, _)
PruneDotsFrom(s, i) ==
    IF i > Len(s) THEN <<>>
    ELSE IF DotMatchAt(s, i)
         THEN DotReplacement(s, i) \o PruneDotsFrom(s, i + DotMatchLen(s, i))
    ELSE <<s[i]>> \o PruneDotsFrom(s, i + 1)

PruneDots(s) == PruneDotsFrom(s, 1)

\* line 68
RenameLambda(s) == StrReplace(StrReplace(s, kw_lambda, kw_lamda), kw_Lambda, kw_Lamda)

\* line 69
CollapseUnderscores_dropped(s) == StrReplace(s, <<USCORE, USCORE>>, <<>>)

CollapseUnderscores(s) == StrReplace(s, <<USCORE, USCORE>>, <<SPACE>>)

\* line 70: (?<![=<>])=(?![=<>]) -> '=='
Relational == {EQ, LT, GT}

SingleEqualsAt(s, i) ==
    /\ s[i] = EQ
    /\ ~(i > 1 /\ s[i - 1] \in Relational)
    /\ ~(i < Len(s) /\ s[i + 1] \in Relational)

RECURSIVE NormalizeEqualsFrom(_, _)
NormalizeEqualsFrom(s, i) ==
    IF i > Len(s) THEN <<>>
    ELSE IF SingleEqualsAt(s, i) THEN <<EQ, EQ>> \o NormalizeEqualsFrom(s, i + 1)
    ELSE <<s[i]>> \o NormalizeEqualsFrom(s, i + 1)

NormalizeEquals(s) == NormalizeEqualsFrom(s, 1)

\* lines 72-74
UnicodeExpansion(c) ==
    IF c = SUP2 THEN <<STAR, STAR, 50>>
    ELSE IF c = SUP3 THEN <<STAR, STAR, 51>>
    ELSE IF c = QUARTER THEN <<LPAR, 49, SLASH, 52, RPAR>>
    ELSE IF c = HALF THEN <<LPAR, 49, SLASH, 50, RPAR>>
    ELSE IF c = THREEQ THEN <<LPAR, 51, SLASH, 52, RPAR>>
    ELSE IF c = TIMES THEN <<STAR>>
    ELSE IF c = DIVIDE THEN <<SLASH>>
    ELSE <<c>>

ExpandUnicode(s) == Flatten([i \in 1..Len(s) |-> UnicodeExpansion(s[i])])

\* lines 56-65: the text after whitelisting, in lenient mode
Whitelisted_markerKept(s) == SubUnsafe(s)

Whitelisted(s) == StrReplace(SubUnsafe(s), <<QMARK>>, <<SPACE>>)

\* lines 67-75: what follows the whitelisting
FurtherCleanup(s) ==
    ExpandUnicode(NormalizeEquals(CollapseUnderscores(RenameLambda(PruneDots(s)))))

\* the outcome of cleanup_string(s, reject) on an interpreter whose re.sub
\* raises (or not) on an unmatched group
CleanupStatus(s, reject, raises) ==
    IF reject /\ Contains(SubUnsafe(s), <<QMARK>>) THEN "UnsafeInputException"
    ELSE IF raises /\ DotUnmatchedFrom(Whitelisted(s), 1) THEN "re.error"
    ELSE "returned"

CleanupResult(s, reject, raises) ==
    IF CleanupStatus(s, reject, raises) = "returned"
    THEN FurtherCleanup(Whitelisted(s))
    ELSE <<>>

(***************************************************************************)
(* The raw texts the model draws.                                           *)
(***************************************************************************)
DotAlphabet == {49, DOT, 97, 35}                     \* 1 . a #
EqAlphabet  == {97, EQ, LT, GT}                      \* a = < >
UniAlphabet == {97, QMARK, 35, SUP2, HALF, TIMES, USCORE}
Fragments   == { <<108>>, <<76>>, <<97, 109, 98>>, <<100, 97>>, <<108, 97, 109>>,
                 <<98, 100, 97>>, <<97, 109, 98, 100, 97>>, kw_lambda,
                 <<USCORE>>, <<USCORE, USCORE>> }

RawTexts ==
    BoundedSeq(DotAlphabet, MaxLen) \cup BoundedSeq(EqAlphabet, MaxLen)
        \cup BoundedSeq(UniAlphabet, MaxUni)
        \cup {Flatten(fs) : fs \in BoundedSeq(Fragments, MaxFrags)}

(***************************************************************************)
(* cleanup_string                                                           *)
(***************************************************************************)

cleanup_string ==
    /\ cleanup_status = "pending"
    /\ cleanup_status' = CleanupStatus(string, reject_unsafe_input, unmatchedGroupRaises)
    /\ cleaned' = CleanupResult(string, reject_unsafe_input, unmatchedGroupRaises)
    /\ UNCHANGED <<string, reject_unsafe_input, unmatchedGroupRaises>>

(***************************************************************************)
(* parse_expr line 270 and _replace_relations (parsing.py 239-255).         *)
(***************************************************************************)
\* RELATIONS_REGEX, group 2: (==|<=|>=|<|>) tried in this order at position i
RelationAt(s, i) ==
    IF OccursAt(s, i, <<EQ, EQ>>) THEN <<EQ, EQ>>
    ELSE IF OccursAt(s, i, <<LT, EQ>>) THEN <<LT, EQ>>
    ELSE IF OccursAt(s, i, <<GT, EQ>>) THEN <<GT, EQ>>
    ELSE IF OccursAt(s, i, <<LT>>) THEN <<LT>>
    ELSE IF OccursAt(s, i, <<GT>>) THEN <<GT>>
    ELSE <<>>

\* str.strip()
RECURSIVE LStrip(_)
LStrip(s) == IF s # <<>> /\ Head(s) = SPACE THEN LStrip(Tail(s)) ELSE s

RECURSIVE RStrip(_)
RStrip(s) ==
    IF s # <<>> /\ s[Len(s)] = SPACE THEN RStrip(SubSeq(s, 1, Len(s) - 1)) ELSE s

Strip(s) == LStrip(RStrip(s))

txt_Eq  == <<69, 113, LPAR>>          \* "Eq("
txt_Rel == <<82, 101, 108, LPAR>>     \* "Rel("

\* lines 248-255, on the three groups of a match
_replace_relations(g1, g2, g3) ==
    IF g2 = <<EQ, EQ>>
    THEN txt_Eq \o Strip(g1) \o <<COMMA>> \o Strip(g3) \o <<RPAR>>
    ELSE txt_Rel \o Strip(g1) \o <<COMMA>> \o Strip(g3) \o <<COMMA, QUOTE>>
            \o g2 \o <<QUOTE, RPAR>>

\* re.sub(RELATIONS_REGEX, _replace_relations, s) from position i: group 1
\* is lazy and stops at the first relation, group 3 (.*) is greedy and takes
\* the rest of the line, so nothing is left to scan after the first match
RECURSIVE SubRelationsFrom(_, _, _)
SubRelationsFrom(s, start, i) ==
    IF i > Len(s) THEN SubSeq(s, start, Len(s))
    ELSE IF RelationAt(s, i) # <<>>
         THEN _replace_relations(SubSeq(s, start, i - 1), RelationAt(s, i),
                                 SubSeq(s, i + Len(RelationAt(s, i)), Len(s)))
    ELSE SubRelationsFrom(s, start, i + 1)

SubRelations(s) == SubRelationsFrom(s, 1, 1)

RelAlphabet == {97, LT, EQ, GT, SPACE}              \* a < = > and space

parse_expr_relations ==
    /\ rel_status = "pending"
    /\ rel_text' = SubRelations(expression_str)
    /\ rel_status' = "rewritten"
    /\ UNCHANGED expression_str

(***************************************************************************)
(* _auto_symbol (parsing.py 117-150).                                       *)
(***************************************************************************)
\* a token is <<tokNum, tokVal>>; repr(str(name)) is the name in quotes
Tok(num, text) == [num |-> num, val |-> text, quoted |-> FALSE]
ReprTok(name)  == [num |-> "NAME", val |-> name, quoted |-> TRUE]

\* line 137: isinstance(obj, (Basic, type)) or callable(obj)
BasicTypeOrCallable_noCheck(kind) == TRUE

BasicTypeOrCallable(kind) == kind \in {"Basic", "type", "callable"}

\* lines 132-140: the name token is appended as it is
KeptAsName(name, ld, gd) ==
    \/ name \in ld
    \/ name \in DOMAIN gd /\ BasicTypeOrCallable(gd[name])

\* lines 141-146
SymbolCall(name) ==
    << Tok("NAME", "Symbol"), Tok("OP", "("), ReprTok(name), Tok("OP", ")") >>

Names      == {"x", "sin"}
ObjectKinds == {"Basic", "type", "callable", "other"}
InputTokens == {Tok("NAME", n) : n \in Names} \cup {Tok("OP", "+"), Tok("NUMBER", "2")}
GlobalDicts == UNION {[D -> ObjectKinds] : D \in SUBSET Names}

\* one iteration of the for loop, lines 126-148
auto_symbol_iter ==
    /\ sym_pc = "loop"
    /\ tok_i <= Len(tokens)
    /\ LET tok == tokens[tok_i] IN
         sym_result' =
            IF tok.num = "NAME"
            THEN IF KeptAsName(tok.val, local_dict, global_dict)
                 THEN Append(sym_result, Tok("NAME", tok.val))
                 ELSE sym_result \o SymbolCall(tok.val)
            ELSE Append(sym_result, tok)
    /\ tok_i' = tok_i + 1
    /\ UNCHANGED <<tokens, local_dict, global_dict, sym_pc>>

\* line 150
auto_symbol_return ==
    /\ sym_pc = "loop"
    /\ tok_i > Len(tokens)
    /\ sym_pc' = "returned"
    /\ UNCHANGED <<tokens, local_dict, global_dict, tok_i, sym_result>>

(***************************************************************************)
(* _EvaluateFalseTransformer.visit_Call (parsing.py 185-202).               *)
(* The tree is given by its call nodes: ast[n].parent is the nearest        *)
(* enclosing call (0 for the outermost), ast[n].func the id of a Name       *)
(* function or NotAName for any other callee expression.                    *)
(***************************************************************************)
NotAName == "<not a Name>"
Marker   == "evaluate=False"

\* line 194
_ignore_functions_noSqrt == {"Integer", "Float", "Symbol", "factorial", "sqrt"}

_ignore_functions == {"Integer", "Float", "Symbol", "factorial", "sqrt", "Sqrt"}

CallNode(f, par) == [func |-> f, parent |-> par, keywords |-> <<>>]

FuncIds == {"Integer", "Float", "Symbol", "factorial", "sqrt", "Sqrt", "cos", NotAName}

\* the shapes of a tree of k call nodes, a node numbered after its parent
ParentMaps(k) ==
    {q \in [1..k -> 0..(k - 1)] : q[1] = 0 /\ \A n \in 2..k : q[n] >= 1 /\ q[n] < n}

\* the call nodes directly below node n, in source order
ChildCalls(tree, n) == {c \in 1..Len(tree) : tree[c].parent = n}

\* the next child of n that generic_visit has not yet visited
NextChild(tree, n, from) ==
    IF \E c \in ChildCalls(tree, n) : c >= from
    THEN CHOOSE c \in ChildCalls(tree, n) :
            c >= from /\ \A d \in ChildCalls(tree, n) : d >= from => c <= d
    ELSE 0

\* line 189: generic_visit(node) goes into the next child call
generic_visit_child ==
    /\ ef_status = "visiting"
    /\ ef_stack # <<>>
    /\ LET top == ef_stack[Len(ef_stack)]
           c   == NextChild(ast, top[1], top[2])
       IN /\ c # 0
          /\ ef_stack' = [ef_stack EXCEPT ![Len(ef_stack)] = <<top[1], c + 1>>]
                            \o << <<c, 1>> >>
    /\ UNCHANGED <<ast0, ast, ef_status>>

\* lines 194-202, once generic_visit has returned
visit_Call_finish ==
    /\ ef_status = "visiting"
    /\ ef_stack # <<>>
    /\ LET top == ef_stack[Len(ef_stack)]
           n   == top[1]
       IN /\ NextChild(ast, n, top[2]) = 0
          /\ IF ast[n].func = NotAName
             THEN \* node.func.id: the callee has no attribute 'id'
                  /\ ef_status' = "AttributeError"
                  /\ UNCHANGED <<ast, ef_stack>>
             ELSE /\ ast' = IF ast[n].func \in _ignore_functions
                            THEN ast
                            ELSE [ast EXCEPT ![n].keywords = Append(@, Marker)]
                  /\ ef_stack' = SubSeq(ef_stack, 1, Len(ef_stack) - 1)
                  /\ ef_status' = IF Len(ef_stack) = 1 THEN "done" ELSE "visiting"
    /\ UNCHANGED ast0

(***************************************************************************)
(* MainWindow.compare (gui.py 16-45).                                       *)
(***************************************************************************)
EmptyMapping == [k \in {} |-> ""]
NoDialog == [title |-> "", text |-> <<>>, icon |-> "NoIcon"]

\* the mappings maths.check / logic.check may return
ValuesOf(k) ==
    IF k = "error" THEN {"bad expression", "Unexpected input characters provided!"}
    ELSE IF k = "equal" THEN {"true", "false", "True"}
    ELSE IF k = "equality_type" THEN {"symbolic"}
    ELSE {"bar"}

ResultKeys == {"error", "equal", "equality_type", "foo"}

CheckerResults ==
    UNION { {m \in [D -> {"bad expression", "Unexpected input characters provided!",
                           "true", "false", "True", "symbolic", "bar"}] :
                \A k \in D : m[k] \in ValuesOf(k)}
            : D \in SUBSET ResultKeys }

\* str(result) as it is put into the f-string of line 43
KeyOrder == <<"error", "equal", "equality_type", "foo">>

RECURSIVE DumpFrom(_, _, _)
DumpFrom(m, i, first) ==
    IF i > Len(KeyOrder) THEN <<"}">>
    ELSE IF KeyOrder[i] \in DOMAIN m
         THEN (IF first THEN <<>> ELSE <<", ">>)
                \o <<"'", KeyOrder[i], "': '", m[KeyOrder[i]], "'">>
                \o DumpFrom(m, i + 1, FALSE)
    ELSE DumpFrom(m, i + 1, first)

Dump(m) == <<"{">> \o DumpFrom(m, 1, TRUE)

\* lines 30-33
EqualityLabel(r) ==
    IF "equality_type" \in DOMAIN r THEN r["equality_type"] ELSE "Unknown type of"

\* lines 24-44: the message box built for a result
MessageFor_equalFirst(r) ==
    IF "equal" \in DOMAIN r
    THEN [title |-> "Result",
          text  |-> IF r["equal"] = "true"
                    THEN <<"Equal (", EqualityLabel(r), " equality)">>
                    ELSE <<"Not equal (", EqualityLabel(r), " inequality)">>,
          icon  |-> "Information"]
    ELSE IF "error" \in DOMAIN r
    THEN [title |-> "Error!", text |-> <<r["error"]>>, icon |-> "Warning"]
    ELSE [title |-> "Error!",
          text  |-> <<"Got unexpected response from check():\n\"">> \o Dump(r)
                    \o <<"\"\nPlease open an issue on https://github.com/l-koehler/equality-checker">>,
          icon  |-> "Critical"]

MessageFor(r) ==
    IF "error" \in DOMAIN r
    THEN [title |-> "Error!", text |-> <<r["error"]>>, icon |-> "Warning"]
    ELSE IF "equal" \in DOMAIN r
    THEN [title |-> "Result",
          text  |-> IF r["equal"] = "true"
                    THEN <<"Equal (", EqualityLabel(r), " equality)">>
                    ELSE <<"Not equal (", EqualityLabel(r), " inequality)">>,
          icon  |-> "Information"]
    ELSE [title |-> "Error!",
          text  |-> <<"Got unexpected response from check():\n\"">> \o Dump(r)
                    \o <<"\"\nPlease open an issue on https://github.com/l-koehler/equality-checker">>,
          icon  |-> "Critical"]

\* lines 20-23: the checker compare calls
CheckerFor_alwaysMaths(logic) == "maths"

CheckerFor(logic) == IF logic THEN "logic" ELSE "maths"

\* the user selects or clears the logic toggle while the window waits
toggle_logic ==
    /\ gui_state = "Idle"
    /\ rb_logic' = ~rb_logic
    /\ UNCHANGED <<gui_state, use_logic, result, msg, called, presses, calls, dialogs>>

\* btn_check.clicked -> compare, lines 17-23: read the widgets, call the checker
compare_call ==
    /\ gui_state = "Idle"
    /\ presses < MaxPresses
    /\ presses' = presses + 1
    /\ use_logic' = rb_logic
    /\ called' = CheckerFor(rb_logic)
    /\ calls' = calls + 1
    /\ gui_state' = "Comparing"
    /\ UNCHANGED <<rb_logic, result, msg, dialogs>>

\* lines 21/23 return, lines 24-45: build the message box and exec() it
compare_show ==
    /\ gui_state = "Comparing"
    /\ \E r \in CheckerResults :
         /\ result' = r
         /\ msg' = MessageFor(r)
    /\ dialogs' = dialogs + 1
    /\ gui_state' = "ResultShown"
    /\ UNCHANGED <<rb_logic, use_logic, called, presses, calls>>

\* the dialog is dismissed: exec() and compare return, the locals are gone
dialog_dismissed ==
    /\ gui_state = "ResultShown"
    /\ gui_state' = "Idle"
    /\ use_logic' = FALSE
    /\ result' = EmptyMapping
    /\ msg' = NoDialog
    /\ called' = "none"
    /\ UNCHANGED <<rb_logic, presses, calls, dialogs>>

(***************************************************************************)
(* Specifications, one for each operation.                                  *)
(***************************************************************************)
\* cleanup_string(string, reject_unsafe_input) is called on a raw text
InitCleanup ==
    /\ string \in RawTexts
    /\ reject_unsafe_input \in BOOLEAN
    /\ unmatchedGroupRaises \in BOOLEAN
    /\ cleanup_status = "pending"
    /\ cleaned = <<>>
    /\ expression_str = <<>>
    /\ rel_status = "idle"
    /\ rel_text = <<>>
    /\ tokens = <<>>
    /\ local_dict = {}
    /\ global_dict = <<>>
    /\ sym_pc = "idle"
    /\ tok_i = 0
    /\ sym_result = <<>>
    /\ ast0 = <<>>
    /\ ast = <<>>
    /\ ef_stack = <<>>
    /\ ef_status = "idle"
    /\ gui_state = "Idle"
    /\ rb_logic = FALSE
    /\ use_logic = FALSE
    /\ result = EmptyMapping
    /\ msg = NoDialog
    /\ called = "none"
    /\ presses = 0
    /\ calls = 0
    /\ dialogs = 0

NextCleanup == cleanup_string /\ UNCHANGED <<relVars, symVars, efVars, guiVars>>
SpecCleanup == InitCleanup /\ [][NextCleanup]_vars

\* parse_expr is handed text that cleanup_string returned
InitRel ==
    /\ string = <<>>
    /\ reject_unsafe_input = FALSE
    /\ unmatchedGroupRaises = FALSE
    /\ cleanup_status = "idle"
    /\ cleaned = <<>>
    /\ expression_str \in {CleanupResult(r, FALSE, FALSE) : r \in BoundedSeq(RelAlphabet, MaxRel)}
    /\ rel_status = "pending"
    /\ rel_text = <<>>
    /\ tokens = <<>>
    /\ local_dict = {}
    /\ global_dict = <<>>
    /\ sym_pc = "idle"
    /\ tok_i = 0
    /\ sym_result = <<>>
    /\ ast0 = <<>>
    /\ ast = <<>>
    /\ ef_stack = <<>>
    /\ ef_status = "idle"
    /\ gui_state = "Idle"
    /\ rb_logic = FALSE
    /\ use_logic = FALSE
    /\ result = EmptyMapping
    /\ msg = NoDialog
    /\ called = "none"
    /\ presses = 0
    /\ calls = 0
    /\ dialogs = 0

NextRel == parse_expr_relations /\ UNCHANGED <<cleanupVars, symVars, efVars, guiVars>>
SpecRel == InitRel /\ [][NextRel]_vars

\* _auto_symbol(tokens, local_dict, global_dict) is entered
InitSym ==
    /\ string = <<>>
    /\ reject_unsafe_input = FALSE
    /\ unmatchedGroupRaises = FALSE
    /\ cleanup_status = "idle"
    /\ cleaned = <<>>
    /\ expression_str = <<>>
    /\ rel_status = "idle"
    /\ rel_text = <<>>
    /\ tokens \in BoundedSeq(InputTokens, MaxTokens)
    /\ local_dict \in SUBSET Names
    /\ global_dict \in GlobalDicts
    /\ sym_pc = "loop"
    /\ tok_i = 1
    /\ sym_result = <<>>
    /\ ast0 = <<>>
    /\ ast = <<>>
    /\ ef_stack = <<>>
    /\ ef_status = "idle"
    /\ gui_state = "Idle"
    /\ rb_logic = FALSE
    /\ use_logic = FALSE
    /\ result = EmptyMapping
    /\ msg = NoDialog
    /\ called = "none"
    /\ presses = 0
    /\ calls = 0
    /\ dialogs = 0

NextSym ==
    \/ auto_symbol_iter /\ UNCHANGED <<cleanupVars, relVars, efVars, guiVars>>
    \/ auto_symbol_return /\ UNCHANGED <<cleanupVars, relVars, efVars, guiVars>>
SpecSym == InitSym /\ [][NextSym]_vars

\* _evaluateFalse line 166: visit(node) reaches the outermost call
InitEf ==
    /\ string = <<>>
    /\ reject_unsafe_input = FALSE
    /\ unmatchedGroupRaises = FALSE
    /\ cleanup_status = "idle"
    /\ cleaned = <<>>
    /\ expression_str = <<>>
    /\ rel_status = "idle"
    /\ rel_text = <<>>
    /\ tokens = <<>>
    /\ local_dict = {}
    /\ global_dict = <<>>
    /\ sym_pc = "idle"
    /\ tok_i = 0
    /\ sym_result = <<>>
    /\ \E k \in 1..MaxNodes :
         \E ps \in ParentMaps(k) :
           \E fs \in [1..k -> FuncIds] :
             /\ ast0 = [n \in 1..k |-> CallNode(fs[n], ps[n])]
             /\ ast = [n \in 1..k |-> CallNode(fs[n], ps[n])]
    /\ ef_stack = << <<1, 1>> >>
    /\ ef_status = "visiting"
    /\ gui_state = "Idle"
    /\ rb_logic = FALSE
    /\ use_logic = FALSE
    /\ result = EmptyMapping
    /\ msg = NoDialog
    /\ called = "none"
    /\ presses = 0
    /\ calls = 0
    /\ dialogs = 0

NextEf ==
    \/ generic_visit_child /\ UNCHANGED <<cleanupVars, relVars, symVars, guiVars>>
    \/ visit_Call_finish /\ UNCHANGED <<cleanupVars, relVars, symVars, guiVars>>
SpecEf == InitEf /\ [][NextEf]_vars

\* MainWindow.__init__: the window is shown and waits
InitGui ==
    /\ string = <<>>
    /\ reject_unsafe_input = FALSE
    /\ unmatchedGroupRaises = FALSE
    /\ cleanup_status = "idle"
    /\ cleaned = <<>>
    /\ expression_str = <<>>
    /\ rel_status = "idle"
    /\ rel_text = <<>>
    /\ tokens = <<>>
    /\ local_dict = {}
    /\ global_dict = <<>>
    /\ sym_pc = "idle"
    /\ tok_i = 0
    /\ sym_result = <<>>
    /\ ast0 = <<>>
    /\ ast = <<>>
    /\ ef_stack = <<>>
    /\ ef_status = "idle"
    /\ gui_state = "Idle"
    /\ rb_logic = FALSE
    /\ use_logic = FALSE
    /\ result = EmptyMapping
    /\ msg = NoDialog
    /\ called = "none"
    /\ presses = 0
    /\ calls = 0
    /\ dialogs = 0

NextGui ==
    \/ toggle_logic /\ UNCHANGED <<cleanupVars, relVars, symVars, efVars>>
    \/ compare_call /\ UNCHANGED <<cleanupVars, relVars, symVars, efVars>>
    \/ compare_show /\ UNCHANGED <<cleanupVars, relVars, symVars, efVars>>
    \/ dialog_dismissed /\ UNCHANGED <<cleanupVars, relVars, symVars, efVars>>
SpecGui == InitGui /\ [][NextGui]_vars

(***************************************************************************)
(* Claims about cleanup_string.                                             *)
(***************************************************************************)
HasDisallowed(s) == \E i \in 1..Len(s) : s[i] \notin ALLOWED_CHARACTER_LIST

CleanupDone == cleanup_status \in {"returned", "UnsafeInputException", "re.error"}

\* C1: in strict mode cleanup_string fails with UnsafeInput exactly when the
\* input has a character outside the whitelist; an input made only of
\* whitelisted characters does not fail, and an input with a disallowed
\* character returns no string.
C1_StrictFailsExactlyOnDisallowed ==
    (CleanupDone /\ reject_unsafe_input) =>
        /\ (cleanup_status = "UnsafeInputException") <=> HasDisallowed(string)
        /\ (~HasDisallowed(string)) => cleanup_status = "returned"
        /\ HasDisallowed(string) => (cleanup_status # "returned" /\ cleaned = <<>>)

\* C2: in lenient mode the returned text has only whitelisted characters
\* and no placeholder marker '?'.
C2_LenientOutputWhitelisted ==
    (cleanup_status = "returned" /\ ~reject_unsafe_input) =>
        \A i \in 1..Len(cleaned) :
            cleaned[i] \in ALLOWED_CHARACTER_LIST /\ cleaned[i] # QMARK

C2_Witness ==
    /\ cleanup_status = "returned"
    /\ ~reject_unsafe_input
    /\ HasDisallowed(string)
    /\ \E i \in 1..Len(string) : string[i] \in {SUP2, HALF, TIMES}
    /\ Len(cleaned) > Len(string)

\* C3: every '.' of the returned text has a digit immediately before it
\* and a digit immediately after it.
C3_DotOnlyBetweenDigits ==
    (cleanup_status = "returned") =>
        \A i \in 1..Len(cleaned) :
            cleaned[i] = DOT =>
                /\ i > 1 /\ cleaned[i - 1] \in Digits
                /\ i < Len(cleaned) /\ cleaned[i + 1] \in Digits

\* C4: for an input over the whitelist, no '=' that belongs to none of
\* '==', '<=', '>=' remains in the returned text.
IsolatedEqualsAt(s, i) ==
    /\ s[i] = EQ
    /\ ~(i > 1 /\ s[i - 1] \in {EQ, LT, GT})
    /\ ~(i < Len(s) /\ s[i + 1] = EQ)

C4_NoIsolatedEquals ==
    (cleanup_status = "returned" /\ ~HasDisallowed(string)) =>
        \A i \in 1..Len(cleaned) : ~IsolatedEqualsAt(cleaned, i)

\* C10: the returned text contains none of '__', 'lambda' and 'Lambda'.
C10_NoDunderNoLambda ==
    (cleanup_status = "returned") =>
        /\ ~Contains(cleaned, <<USCORE, USCORE>>)
        /\ ~Contains(cleaned, kw_lambda)
        /\ ~Contains(cleaned, kw_Lambda)

C10_Witness ==
    /\ cleanup_status = "returned"
    /\ Contains(string, <<USCORE, USCORE>>)
    /\ (Contains(string, kw_lambda) \/ Contains(string, kw_Lambda))
    /\ (Contains(cleaned, kw_lamda) \/ Contains(cleaned, kw_Lamda))

(***************************************************************************)
(* Claims about parse_expr.                                                 *)
(***************************************************************************)
QuotesBefore(s, i) == Cardinality({k \in 1..(i - 1) : s[k] = QUOTE})

\* a relational operator at position i that is not inside '...'
BareRelationAt(s, i) ==
    /\ QuotesBefore(s, i) % 2 = 0
    /\ (s[i] \in {LT, GT} \/ OccursAt(s, i, <<EQ, EQ>>))

\* C5: in the text handed to the tokenizer no relational operator remains
\* as a bare infix operator, also when the cleaned text has several.
C5_NoBareRelationLeft ==
    (rel_status = "rewritten") =>
        \A i \in 1..Len(rel_text) : ~BareRelationAt(rel_text, i)

\* what the claim says a token becomes
C6_Image(tok, ld, gd) ==
    IF /\ tok.num = "NAME"
       /\ tok.val \notin ld
       /\ ~(tok.val \in DOMAIN gd /\ gd[tok.val] \in {"callable", "Basic", "type"})
    THEN << [num |-> "NAME", val |-> "Symbol", quoted |-> FALSE],
            [num |-> "OP",   val |-> "(",      quoted |-> FALSE],
            [num |-> "NAME", val |-> tok.val,  quoted |-> TRUE],
            [num |-> "OP",   val |-> ")",      quoted |-> FALSE] >>
    ELSE <<tok>>

IsInfix(part, whole) ==
    \E i \in 1..Len(whole) : OccursAt(whole, i, part)

C8_DialogByPriority ==
    (gui_state = "ResultShown") =>
        LET hasError == "error" \in DOMAIN result
            hasEqual == "equal" \in DOMAIN result
            kind == IF "equality_type" \in DOMAIN result
                    THEN result["equality_type"] ELSE "Unknown type of"
        IN /\ hasError =>
                /\ msg.title = "Error!" /\ msg.icon = "Warning"
                /\ msg.text = <<result["error"]>>
           /\ (~hasError /\ hasEqual) =>
                /\ msg.icon = "Information"
                /\ (result["equal"] = "true") =>
                        msg.text = <<"Equal (", kind, " equality)">>
                /\ (result["equal"] # "true") =>
                        msg.text = <<"Not equal (", kind, " inequality)">>
           /\ (~hasError /\ ~hasEqual) =>
                /\ msg.title = "Error!" /\ msg.icon = "Critical"
                /\ IsInfix(Dump(result), msg.text)
           /\ Cardinality({msg.icon} \cap {"Warning", "Information", "Critical"}) = 1

C8_Witness ==
    /\ gui_state = "ResultShown"
    /\ "error" \in DOMAIN result
    /\ "equal" \in DOMAIN result
    /\ result["equal"] = "true"
    /\ msg.icon = "Warning"

\* C9: every activation makes exactly one checker call (logic iff the
\* toggle is selected), then shows exactly one dialog, then is Idle again
\* with nothing kept; no dialog without a preceding checker call.
C9_StateOk ==
    /\ calls = presses
    /\ dialogs <= calls
    /\ gui_state = "Idle" =>
         /\ dialogs = presses
         /\ result = EmptyMapping /\ msg = NoDialog /\ called = "none"
    /\ gui_state = "Comparing" =>
         /\ dialogs = presses - 1
         /\ msg = NoDialog
         /\ called = (IF rb_logic THEN "logic" ELSE "maths")
    /\ gui_state = "ResultShown" =>
         /\ dialogs = presses
         /\ msg # NoDialog
         /\ called = (IF rb_logic THEN "logic" ELSE "maths")

C9_StepOk ==
    /\ (gui_state = "Idle" /\ gui_state' # "Idle") =>
            (gui_state' = "Comparing" /\ calls' = calls + 1 /\ dialogs' = dialogs)
    /\ (gui_state = "Comparing" /\ gui_state' # "Comparing") =>
            (gui_state' = "ResultShown" /\ calls' = calls /\ dialogs' = dialogs + 1)
    /\ (gui_state = "ResultShown" /\ gui_state' # "ResultShown") =>
            (gui_state' = "Idle" /\ calls' = calls /\ dialogs' = dialogs)
    /\ (gui_state' = gui_state) => (calls' = calls /\ dialogs' = dialogs)

C9_OneCallOneDialogPerPress == []C9_StateOk /\ [][C9_StepOk]_vars

C9_Witness ==
    /\ gui_state = "Idle"
    /\ presses = 2
    /\ dialogs = 2
    /\ rb_logic

=============================================================================
